---- MODULE Spec2Model ----
(***************************************************************************)
(* Model of the Lyftr webhook API: signed ingestion (POST /webhook) into   *)
(* a SQLite table keyed by message_id, the filtered and paginated listing  *)
(* (GET /messages) and the health probes.                                   *)
(*                                                                         *)
(* Strings are tuples of one-character strings.  Optional[str] values are  *)
(* records [isNone, val].  HMAC-SHA256 is modelled as a collision-free     *)
(* function of (key, body): its hex digest is the pair itself, printed in  *)
(* lowercase.  The server clock is a tick counter.                         *)
(***************************************************************************)
EXTENDS Integers, Sequences, FiniteSets, TLC

(* ------------------------------ bounds --------------------------------- *)

\* request slots that can be in flight at the same time
NumProcs == 2
\* requests accepted over one behaviour
MaxReq == 3
\* last tick of the server clock
MaxNow == 1

Procs == 1..NumProcs

(* ------------------------------ strings -------------------------------- *)

None == [isNone |-> TRUE, val |-> <<>>]
Some(s) == [isNone |-> FALSE, val |-> s]

\* Python truthiness of an Optional[str]: None and "" are falsy
Truthy(o) == ~o.isNone /\ o.val # <<>>

AsciiDigits == {"0", "1", "2", "3", "4", "5", "6", "7", "8", "9"}

\* ARABIC-INDIC DIGIT THREE, a non-ASCII character with str.isdigit() true
UDigit3 == "U+0663"

StartsWith(s, c) == Len(s) >= 1 /\ s[1] = c
EndsWith(s, c) == Len(s) >= 1 /\ s[Len(s)] = c

\* str.isdigit(): non-empty and every character is a (Unicode) digit
IsDigit(s) == Len(s) >= 1 /\ \A i \in 1..Len(s) : s[i] \in AsciiDigits \cup {UDigit3}

\* s[1:]
Tail1(s) == IF Len(s) = 0 THEN <<>> ELSE Tail(s)

\* number denoted by a string of ASCII digits
DigitVal(c) == CASE c = "0" -> 0 [] c = "1" -> 1 [] c = "2" -> 2 [] c = "3" -> 3
                 [] c = "4" -> 4 [] c = "5" -> 5 [] c = "6" -> 6 [] c = "7" -> 7
                 [] c = "8" -> 8 [] c = "9" -> 9
RECURSIVE NumVal(_)
NumVal(s) == IF s = <<>> THEN 0 ELSE 10 * NumVal(SubSeq(s, 1, Len(s) - 1)) + DigitVal(s[Len(s)])
AllAsciiDigits(s) == \A i \in 1..Len(s) : s[i] \in AsciiDigits

\* str.replace("Z", "+00:00"): every occurrence
RECURSIVE ReplaceZ(_)
ReplaceZ(s) == IF s = <<>> THEN <<>>
               ELSE (IF Head(s) = "Z" THEN <<"+", "0", "0", ":", "0", "0">> ELSE <<Head(s)>>)
                    \o ReplaceZ(Tail(s))

\* code points of the characters that occur in compared strings
Code == [c \in {"+", "-", ".", ":", "T", "Z", "m"} \cup AsciiDigits |->
            CASE c = "+" -> 43 [] c = "-" -> 45 [] c = "." -> 46 [] c = ":" -> 58
              [] c = "T" -> 84 [] c = "Z" -> 90 [] c = "m" -> 109
              [] OTHER -> 48 + DigitVal(c)]

\* SQLite's BINARY collation on TEXT: memcmp, the shorter string first on a tie
RECURSIVE StrLess(_, _)
StrLess(a, b) ==
    IF b = <<>> THEN FALSE
    ELSE IF a = <<>> THEN TRUE
    ELSE IF Head(a) # Head(b) THEN Code[Head(a)] < Code[Head(b)]
    ELSE StrLess(Tail(a), Tail(b))

\* Python's int is unbounded: a sign and the decimal digits of the magnitude,
\* without leading zeros
DigitChars == <<"0", "1", "2", "3", "4", "5", "6", "7", "8", "9">>
RECURSIVE Digits(_)
Digits(n) == IF n < 10 THEN <<DigitChars[n + 1]>>
             ELSE Digits(n \div 10) \o <<DigitChars[(n % 10) + 1]>>
PyInt(n) == [neg |-> n < 0, mag |-> Digits(IF n < 0 THEN 0 - n ELSE n)]

MagLess(a, b) == Len(a) < Len(b) \/ (Len(a) = Len(b) /\ StrLess(a, b))
\* a < b on Python ints
IntLess(a, b) ==
    IF a.neg # b.neg THEN a.neg
    ELSE IF a.neg THEN MagLess(b.mag, a.mag)
    ELSE MagLess(a.mag, b.mag)

\* the value of a Python int of at most 9 digits
IntVal(a) == IF a.neg THEN 0 - NumVal(a.mag) ELSE NumVal(a.mag)

\* SQLite's INTEGER is a signed 64-bit value: -2^63 .. 2^63 - 1
TwoTo63 == [neg |-> FALSE,
            mag |-> <<"9", "2", "2", "3", "3", "7", "2", "0", "3", "6",
                      "8", "5", "4", "7", "7", "5", "8", "0", "8">>]
SqliteMaxInt == [TwoTo63 EXCEPT !.mag[19] = "7"]
SqliteMinInt == [TwoTo63 EXCEPT !.neg = TRUE]

\* binding a Python int outside that range to a "?" raises OverflowError
BindOverflows(n) == IntLess(SqliteMaxInt, n) \/ IntLess(n, SqliteMinInt)

\* SQLite's LIKE folds the case of the 26 ASCII letters
UpperLetters == <<"A", "B", "C", "D", "E", "F", "G", "H", "I", "J", "K", "L", "M",
                  "N", "O", "P", "Q", "R", "S", "T", "U", "V", "W", "X", "Y", "Z">>
LowerLetters == <<"a", "b", "c", "d", "e", "f", "g", "h", "i", "j", "k", "l", "m",
                  "n", "o", "p", "q", "r", "s", "t", "u", "v", "w", "x", "y", "z">>
Fold(c) == IF \E i \in 1..26 : UpperLetters[i] = c
           THEN LowerLetters[CHOOSE i \in 1..26 : UpperLetters[i] = c]
           ELSE c

\* text LIKE pattern: % matches any run of characters, _ any one character
RECURSIVE Like(_, _)
Like(txt, pat) ==
    IF pat = <<>> THEN txt = <<>>
    ELSE IF Head(pat) = "%" THEN Like(txt, Tail(pat)) \/ (txt # <<>> /\ Like(Tail(txt), pat))
    ELSE IF txt = <<>> THEN FALSE
    ELSE IF Head(pat) = "_" THEN Like(Tail(txt), Tail(pat))
    ELSE Fold(Head(pat)) = Fold(Head(txt)) /\ Like(Tail(txt), Tail(pat))

(* ------------------------- payload validation -------------------------- *)

MaxTextLen == 4096

validate_msisdn(v) == StartsWith(v, "+") /\ IsDigit(Tail1(v))

DaysInMonth(y, m) == IF m \in {4, 6, 9, 11} THEN 30
                     ELSE IF m = 2
                          THEN (IF (y % 4 = 0 /\ y % 100 # 0) \/ y % 400 = 0 THEN 29 ELSE 28)
                          ELSE 31

\* datetime.fromisoformat on the forms YYYY-MM-DDTHH:MM:SS[.fff[fff]]+00:00
\* and YYYY-MM-DDTHH:MM:SS[.fff[fff]] (the forms every supported Python
\* accepts); any other shape raises ValueError
fromisoformat(s) ==
    LET n == Len(s)
        hasTz == n >= 25 /\ SubSeq(s, n - 5, n) = <<"+", "0", "0", ":", "0", "0">>
        core == IF hasTz THEN SubSeq(s, 1, n - 6) ELSE s
        m == Len(core)
        frac == IF m > 19 THEN SubSeq(core, 21, m) ELSE <<>>
        y == NumVal(SubSeq(core, 1, 4))
        mo == NumVal(SubSeq(core, 6, 7))
        d == NumVal(SubSeq(core, 9, 10))
        hh == NumVal(SubSeq(core, 12, 13))
        mi == NumVal(SubSeq(core, 15, 16))
        ss == NumVal(SubSeq(core, 18, 19))
    IN  /\ m \in {19, 23, 26}
        /\ AllAsciiDigits(SubSeq(core, 1, 4)) /\ core[5] = "-"
        /\ AllAsciiDigits(SubSeq(core, 6, 7)) /\ core[8] = "-"
        /\ AllAsciiDigits(SubSeq(core, 9, 10)) /\ core[11] = "T"
        /\ AllAsciiDigits(SubSeq(core, 12, 13)) /\ core[14] = ":"
        /\ AllAsciiDigits(SubSeq(core, 15, 16)) /\ core[17] = ":"
        /\ AllAsciiDigits(SubSeq(core, 18, 19))
        /\ (m > 19 => core[20] = "." /\ AllAsciiDigits(frac))
        /\ y >= 1 /\ mo \in 1..12 /\ d >= 1 /\ d <= DaysInMonth(y, mo)
        /\ hh <= 23 /\ mi <= 59 /\ ss <= 59

validate_ts(v) == EndsWith(v, "Z") /\ fromisoformat(ReplaceZ(v))

\* the datetime that fromisoformat returns for a ts that validate_ts accepts:
\* year, month, day, hour, minute, second, microsecond, all at offset +00:00
datetime(v) ==
    LET core == SubSeq(v, 1, Len(v) - 1)
        frac == IF Len(core) > 19 THEN SubSeq(core, 21, Len(core)) ELSE <<>>
    IN  << NumVal(SubSeq(core, 1, 4)), NumVal(SubSeq(core, 6, 7)), NumVal(SubSeq(core, 9, 10)),
           NumVal(SubSeq(core, 12, 13)), NumVal(SubSeq(core, 15, 16)),
           NumVal(SubSeq(core, 18, 19)),
           IF Len(frac) = 3 THEN 1000 * NumVal(frac) ELSE NumVal(frac) >>

\* datetime.__lt__ on two datetimes of the same offset
Earlier(a, b) ==
    \E i \in 1..7 : a[i] < b[i] /\ \A j \in 1..(i - 1) : a[j] = b[j]

\* the raw body decoded as JSON: field order and whitespace (fmt) are lost
ParseBody(body) == [message_id |-> body.message_id, from_msisdn |-> body.from,
                    to_msisdn |-> body.to, ts |-> body.ts, text |-> body.text]

\* pydantic validation of WebhookMessage
WebhookMessage(payload) ==
    /\ Len(payload.message_id) >= 1
    /\ validate_msisdn(payload.from_msisdn)
    /\ validate_msisdn(payload.to_msisdn)
    /\ validate_ts(payload.ts)
    /\ (payload.text.isNone \/ Len(payload.text.val) <= MaxTextLen)

(* ------------------------------ signature ------------------------------ *)

\* hmac.new(key, body, sha256).hexdigest(): lowercase hex of the digest
hexdigest(key, body) == [tag |-> "hex", mac |-> <<key, body>>, upper |-> FALSE]

NoHeader == [isNone |-> TRUE, val |-> [tag |-> "empty", mac |-> <<>>, upper |-> FALSE]]
Header(v) == [isNone |-> FALSE, val |-> v]
EmptySig == [tag |-> "empty", mac |-> <<>>, upper |-> FALSE]
NonAsciiSig == [tag |-> "nonascii", mac |-> <<>>, upper |-> FALSE]
UpperCase(sig) == [sig EXCEPT !.upper = TRUE]

\* `not x_signature`
SigFalsy(h) == h.isNone \/ h.val.tag = "empty"

\* hmac.compare_digest on two str: TypeError if either holds a non-ASCII character
compare_digest_raises(a, b) == a.tag = "nonascii" \/ b.tag = "nonascii"
compare_digest(a, b) == a = b

\* len(s.strip()) = 0 exactly when s holds nothing but whitespace
StripIsEmpty(s) == \A i \in 1..Len(s) : s[i] = " "

\* (mutant) Config.validate without the strip()
ConfigValidate_NoStrip(sec) == Truthy(sec)

\* Config.validate
ConfigValidate(sec) == ~(~Truthy(sec) \/ StripIsEmpty(sec.val))

(* ---------------------------- sample inputs ---------------------------- *)

MID1 == <<"m", "1">>
MID2 == <<"m", "2">>

PLUS1 == <<"+", "1">>
PLUS2 == <<"+", "2">>
PLUS9 == <<"+", "9">>

Jan1x == <<"2", "0", "2", "5", "-", "0", "1", "-", "1">>
T10 == <<"T", "1", "0", ":", "0", "0", ":", "0", "0">>
\* 2025-01-15T10:00:00Z and 2025-01-16T10:00:00Z
TS15 == Jan1x \o <<"5">> \o T10 \o <<"Z">>
TS16 == Jan1x \o <<"6">> \o T10 \o <<"Z">>
\* 2025-01-15T10:00:00 (no Z) and 2025-13-15T10:00:00Z (month 13)
TSnoZ == Jan1x \o <<"5">> \o T10
TSbad == <<"2", "0", "2", "5", "-", "1", "3", "-", "1", "5">> \o T10 \o <<"Z">>

\* 2025-01-15T10:00:00.500Z
TS15frac == Jan1x \o <<"5">> \o T10 \o <<".", "5", "0", "0", "Z">>

Hello == <<"H", "e", "l", "l", "o">>
hello == <<"h", "e", "l", "l", "o">>
LongText == [i \in 1..(MaxTextLen + 1) |-> "x"]

Body(fmt, mid, from, to, ts, text) ==
    [fmt |-> fmt, message_id |-> mid, from |-> from, to |-> to, ts |-> ts, text |-> text]

\* raw bodies whose payload passes validation; the second reuses message_id
\* m1 with other field values and ties with the third on ts
ValidBodies == {
    Body("compact", MID1, PLUS1, PLUS9, TS16, Some(Hello)),
    Body("compact", MID1, PLUS2, PLUS9, TS15, None),
    Body("compact", MID2, PLUS1, PLUS9, TS15, Some(hello)) }

\* raw bodies whose payload violates one validation rule each
InvalidBodies == {
    Body("compact", <<>>, PLUS1, PLUS9, TS15, None),
    Body("compact", MID2, <<"1">>, PLUS9, TS15, None),
    Body("compact", MID2, PLUS1, <<"+">>, TS15, None),
    Body("compact", MID2, PLUS1, PLUS9, TSnoZ, None),
    Body("compact", MID2, PLUS1, PLUS9, TSbad, None),
    Body("compact", MID2, PLUS1, PLUS9, TS15, Some(LongText)) }

\* a raw body whose sender is '+' and ARABIC-INDIC DIGIT THREE
UnicodeDigitBodies == {
    Body("compact", MID2, <<"+", UDigit3>>, PLUS9, TS15, None) }

Bodies == ValidBodies \cup InvalidBodies \cup UnicodeDigitBodies

Params(limit, offset, from, from_msisdn, since, q) ==
    [limit |-> PyInt(limit), offset |-> PyInt(offset), from |-> from,
     from_msisdn |-> from_msisdn, since |-> since, q |-> q]

\* query strings of GET /messages: pagination values in and out of range
\* (the last one has offset=9223372036854775808), and the filters alone and
\* combined
QueryParams == {
    Params(50, 0, None, None, None, None),
    Params(1, 0, None, None, None, None),
    Params(1, 1, None, None, None, None),
    Params(-1, -1, None, None, None, None),
    Params(101, 0, None, None, None, None),
    Params(50, 0, None, Some(PLUS1), None, None),
    Params(50, 0, None, None, Some(TS16), None),
    Params(50, 0, None, None, None, Some(hello)),
    Params(1, 0, None, None, None, Some(hello)),
    Params(50, 0, None, None, None, Some(<<"_">>)),
    Params(50, 0, None, Some(PLUS1), Some(TS16), Some(hello)),
    Params(50, 0, Some(PLUS1), None, None, None),
    Params(50, 0, Some(PLUS1), None, Some(TS15), None),
    Params(50, 0, None, Some(<<>>), Some(<<>>), Some(<<>>)),
    [Params(50, 0, None, None, None, None) EXCEPT !.offset = TwoTo63] }

\* another raw body: the same JSON with different whitespace
OtherBody(b) == [b EXCEPT !.fmt = IF b.fmt = "compact" THEN "spaced" ELSE "compact"]

\* the secret the legitimate sender signs with
SenderKey == <<"k">>

\* WEBHOOK_SECRET of the server process: unset, empty, blank, or the sender's
Secrets == {None, Some(<<>>), Some(<<" ">>), Some(SenderKey)}

\* X-Signature headers a caller may attach to body b: none, the sender's
\* signature of b and, for message m2, "", one with a non-ASCII character,
\* the sender's signature in uppercase and the sender's signature of another
\* body
SigHeaders(b) ==
    { NoHeader, Header(hexdigest(SenderKey, b)) }
    \cup (IF b \in ValidBodies /\ b.message_id = MID2
          THEN { Header(EmptySig), Header(NonAsciiSig),
                 Header(UpperCase(hexdigest(SenderKey, b))),
                 Header(hexdigest(SenderKey, OtherBody(b))) }
          ELSE {})

\* the same, and the signatures of b under the keys "" and " "
SigHeadersAnyKey(b) ==
    SigHeaders(b) \cup { Header(hexdigest(<<>>, b)), Header(hexdigest(<<" ">>, b)) }

(* -------------------------------- state -------------------------------- *)

VARIABLES
    secret,                  \* config.WEBHOOK_SECRET
    schema,                  \* TRUE once the messages table exists
    store,                   \* the committed rows of table messages
    wlock,                   \* slot holding SQLite's write lock, 0 when free
    now,                     \* server clock
    pc,                      \* per slot: position of its request handler
    req,                     \* per slot: the request being served
    loc,                     \* per slot: local variables of the handler
    resp,                    \* per slot: the response sent
    nreq,                    \* requests accepted so far
    webhook_requests_total   \* metrics.webhook_requests_total

vars == <<secret, schema, store, wlock, now, pc, req, loc, resp, nreq, webhook_requests_total>>

DummyBody == Body("compact", <<>>, <<>>, <<>>, <<>>, None)
NoParams == [limit |-> PyInt(50), offset |-> PyInt(0), from |-> None, from_msisdn |-> None,
             since |-> None, q |-> None]
NoReq == [kind |-> "none", body |-> DummyBody, sig |-> NoHeader, params |-> NoParams]
WebhookReq(body, sig) == [kind |-> "webhook", body |-> body, sig |-> sig, params |-> NoParams]

MessagesReq(params) == [kind |-> "messages", body |-> DummyBody, sig |-> NoHeader, params |-> params]
HealthReq(kind) == [kind |-> kind, body |-> DummyBody, sig |-> NoHeader, params |-> NoParams]

\* outcome is what insert_message (or a query) did: "created", "duplicate",
\* "failed" for (False, False), "raised" for an exception of the storage
\* layer, "overflow" for an OverflowError of the parameter binding.  count_seen and
\* page_seen record the number of committed rows when the first and the last
\* SELECT of get_messages or get_stats ran
NoStats == [total_messages |-> 0, senders_count |-> 0, messages_per_sender |-> <<>>,
            first_message_ts |-> None, last_message_ts |-> None]

NoLoc == [created_at |-> 0, outcome |-> "none", limit |-> PyInt(0), offset |-> PyInt(0),
          total_count |-> 0, count_seen |-> 0, page_seen |-> 0, stats |-> NoStats]

Response(status, detail) ==
    [status |-> status, detail |-> detail, data |-> <<>>, total |-> 0,
     limit |-> PyInt(0), offset |-> PyInt(0), stats |-> NoStats]
NoResp == Response(0, "none")
\* WebhookResponse(status="ok")
Ok200 == Response(200, "ok")
\* HTTPException(401, "invalid signature")
Unauthorized401 == Response(401, "invalid signature")
\* FastAPI's RequestValidationError response
Unprocessable422 == Response(422, "validation error")
\* HTTPException(500, "internal server error")
Internal500 == Response(500, "internal server error")
\* Starlette's answer to an exception no handler catches
Unhandled500 == Response(500, "Internal Server Error")

Results == {"invalid_signature", "error", "created", "duplicate"}

\* MetricsCollector.increment_webhook_request
increment_webhook_request(m, result) == [m EXCEPT ![result] = @ + 1]

InitWith(secrets, schemas, stores) ==
    /\ secret \in secrets
    /\ schema \in schemas
    /\ store \in stores
    /\ wlock = 0
    /\ now = 0
    /\ pc = [p \in Procs |-> "idle"]
    /\ req = [p \in Procs |-> NoReq]
    /\ loc = [p \in Procs |-> NoLoc]
    /\ resp = [p \in Procs |-> NoResp]
    /\ nreq = 0
    /\ webhook_requests_total = [r \in Results |-> 0]

\* the service configured with the sender's secret
Init == InitWith({Some(SenderKey)}, {FALSE}, {{}})

\* the service started with any WEBHOOK_SECRET
InitAnySecret == InitWith(Secrets, {FALSE}, {{}})

(* ------------------------------- startup ------------------------------- *)

\* init_db: CREATE TABLE IF NOT EXISTS messages
init_db == schema' = TRUE

\* the startup hook: refuses an invalid configuration, else creates the schema
startup ==
    /\ ~schema
    /\ ConfigValidate(secret)
    /\ init_db
    /\ UNCHANGED <<secret, store, wlock, now, pc, req, loc, resp, nreq, webhook_requests_total>>

\* the temp_db fixture: creates the schema and serves the app without the
\* startup hook
temp_db ==
    /\ ~schema
    /\ init_db
    /\ UNCHANGED <<secret, store, wlock, now, pc, req, loc, resp, nreq, webhook_requests_total>>

\* a request arrives on the first free slot, once the responses already sent
\* have been collected
Accept(p) ==
    /\ pc[p] = "idle"
    /\ \A o \in Procs : pc[o] # "done" /\ (o < p => pc[o] # "idle")
    /\ nreq < MaxReq
    /\ nreq' = nreq + 1

(* ----------------------------- POST /webhook --------------------------- *)

\* the handler finishes with response r
Respond(p, r) ==
    /\ pc' = [pc EXCEPT ![p] = "done"]
    /\ resp' = [resp EXCEPT ![p] = r]

\* the steps of webhook() up to the call of insert_message.  FastAPI binds
\* (parses and validates) the payload parameter before it calls the handler
\* body, so a validation failure answers 422 before the signature is looked at.
WebhookOutcome(sec, body, sig) ==
    IF ~WebhookMessage(ParseBody(body)) THEN "unprocessable"
    ELSE IF SigFalsy(sig) THEN "unauthorized"
    ELSE IF sec.isNone THEN "raise"
    ELSE IF compare_digest_raises(hexdigest(sec.val, body), sig.val) THEN "raise"
    ELSE IF ~compare_digest(hexdigest(sec.val, body), sig.val) THEN "unauthorized"
    ELSE "insert"

Webhook(p, body, sig) ==
    /\ Accept(p)
    /\ req' = [req EXCEPT ![p] = WebhookReq(body, sig)]
    /\ loc' = [loc EXCEPT ![p] = NoLoc]
    /\ LET o == WebhookOutcome(secret, body, sig)
       IN  CASE o = "unprocessable" ->
                  /\ Respond(p, Unprocessable422)
                  /\ UNCHANGED webhook_requests_total
             [] o = "unauthorized" ->
                  /\ Respond(p, Unauthorized401)
                  /\ webhook_requests_total' =
                         increment_webhook_request(webhook_requests_total, "invalid_signature")
             [] o = "raise" ->
                  /\ Respond(p, Unhandled500)
                  /\ UNCHANGED webhook_requests_total
             [] o = "insert" ->
                  /\ pc' = [pc EXCEPT ![p] = "insert"]
                  /\ UNCHANGED <<resp, webhook_requests_total>>
    /\ UNCHANGED <<secret, schema, store, wlock, now>>

\* the row insert_message writes
Row(payload, created_at) ==
    [message_id |-> payload.message_id, from_msisdn |-> payload.from_msisdn,
     to_msisdn |-> payload.to_msisdn, ts |-> payload.ts, text |-> payload.text,
     created_at |-> created_at]

\* (mutant) the table declared without the primary key
PrimaryKeyConflict_NoKey(st, mid) == FALSE

\* message_id TEXT PRIMARY KEY: a row with this key is already there
PrimaryKeyConflict(st, mid) == \E r \in st : r.message_id = mid

\* (mutant) INSERT OR REPLACE: the new row takes the place of the stored one
SqlInsert_OrReplace(st, row) ==
    [error |-> "none", table |-> {r \in st : r.message_id # row.message_id} \cup {row}]

\* INSERT INTO messages VALUES (...): IntegrityError on a key conflict, else
\* the table with the new row
SqlInsert(st, row) ==
    IF PrimaryKeyConflict(st, row.message_id)
    THEN [error |-> "IntegrityError", table |-> st]
    ELSE [error |-> "none", table |-> st \cup {row}]

\* (mutant) a duplicate reported to the caller as a failure
AfterInsert_DuplicateFails(p, success, is_duplicate) ==
    IF ~success \/ is_duplicate
    THEN /\ Respond(p, Internal500)
         /\ webhook_requests_total' = increment_webhook_request(webhook_requests_total, "error")
    ELSE /\ Respond(p, Ok200)
         /\ webhook_requests_total' = increment_webhook_request(webhook_requests_total, "created")

\* webhook() after insert_message returned (success, is_duplicate)
AfterInsert(p, success, is_duplicate) ==
    IF ~success
    THEN /\ Respond(p, Internal500)
         /\ webhook_requests_total' = increment_webhook_request(webhook_requests_total, "error")
    ELSE /\ Respond(p, Ok200)
         /\ webhook_requests_total' =
                increment_webhook_request(webhook_requests_total,
                                          IF is_duplicate THEN "duplicate" ELSE "created")

\* created_at = utcnow() is read (the clock has moved on by any amount since
\* it was last read), then cursor.execute(INSERT ...) waits for the write lock, then either hits the
\* primary key and returns (True, True) or leaves the row pending in its
\* transaction
InsertExecute(p) ==
    /\ pc[p] = "insert"
    /\ schema
    /\ wlock = 0
    /\ \E t \in now..MaxNow :
         /\ now' = t
         /\ IF SqlInsert(store, Row(ParseBody(req[p].body), t)).error = "IntegrityError"
            THEN /\ AfterInsert(p, TRUE, TRUE)
                 /\ loc' = [loc EXCEPT ![p].created_at = t, ![p].outcome = "duplicate"]
                 /\ UNCHANGED wlock
            ELSE /\ wlock' = p
                 /\ loc' = [loc EXCEPT ![p].created_at = t]
                 /\ pc' = [pc EXCEPT ![p] = "commit"]
                 /\ UNCHANGED <<resp, webhook_requests_total>>
    /\ UNCHANGED <<secret, schema, store, req, nreq>>

\* (mutant) (True, False) returned without the row being committed
InsertCommit_NoWrite(p) ==
    /\ pc[p] = "commit"
    /\ wlock' = 0
    /\ loc' = [loc EXCEPT ![p].outcome = "created"]
    /\ AfterInsert(p, TRUE, FALSE)
    /\ UNCHANGED <<secret, schema, store, now, req, nreq>>

\* conn.commit(): the pending row becomes visible, (True, False)
InsertCommit(p) ==
    /\ pc[p] = "commit"
    /\ store' = SqlInsert(store, Row(ParseBody(req[p].body), loc[p].created_at)).table
    /\ wlock' = 0
    /\ loc' = [loc EXCEPT ![p].outcome = "created"]
    /\ AfterInsert(p, TRUE, FALSE)
    /\ UNCHANGED <<secret, schema, now, req, nreq>>

\* execute or commit raises something other than IntegrityError (no such
\* table, database is locked, I/O error): conn.close() rolls the pending row
\* back, (False, False)
InsertFail(p) ==
    /\ pc[p] \in {"insert", "commit"}
    /\ loc' = [loc EXCEPT ![p].outcome = "failed"]
    /\ wlock' = IF wlock = p THEN 0 ELSE wlock
    /\ AfterInsert(p, FALSE, FALSE)
    /\ UNCHANGED <<secret, schema, store, now, req, nreq>>

\* get_db_connection() raises: it is called outside the try block, so the
\* exception leaves insert_message and webhook
InsertConnectFail(p) ==
    /\ pc[p] = "insert"
    /\ loc' = [loc EXCEPT ![p].outcome = "raised"]
    /\ Respond(p, Unhandled500)
    /\ UNCHANGED <<secret, schema, store, wlock, now, req, nreq, webhook_requests_total>>

(* ----------------------------- GET /messages --------------------------- *)

\* the WHERE clause get_messages builds: one entry per truthy filter
Where(from_msisdn, since, q) ==
    (IF Truthy(from_msisdn) THEN <<[col |-> "from_msisdn", op |-> "=", arg |-> from_msisdn.val]>>
     ELSE <<>>)
    \o (IF Truthy(since) THEN <<[col |-> "ts", op |-> ">=", arg |-> since.val]>> ELSE <<>>)
    \o (IF Truthy(q) THEN <<[col |-> "text", op |-> "LIKE", arg |-> <<"%">> \o q.val \o <<"%">>]>>
        ELSE <<>>)

\* one clause evaluated on a row; a comparison with NULL is not true
ClauseHolds(c, r) ==
    CASE c.op = "=" -> r.from_msisdn = c.arg
      [] c.op = ">=" -> ~StrLess(r.ts, c.arg)
      [] c.op = "LIKE" -> ~r.text.isNone /\ Like(r.text.val, c.arg)

\* " AND ".join(where_clauses), "1=1" when there is none
WhereHolds(where, r) == \A i \in 1..Len(where) : ClauseHolds(where[i], r)

\* SELECT COUNT(*) FROM messages WHERE ...
SelectCount(st, where) == Cardinality({r \in st : WhereHolds(where, r)})

\* (mutant) ORDER BY ts ASC alone
OrderedBefore_TsOnly(r1, r2) == StrLess(r1.ts, r2.ts)

\* ORDER BY ts ASC, message_id ASC: r1 sorts strictly before r2
OrderedBefore(r1, r2) ==
    \/ StrLess(r1.ts, r2.ts)
    \/ r1.ts = r2.ts /\ StrLess(r1.message_id, r2.message_id)

\* the orders in which SQLite may return the rows: every arrangement that
\* respects the ORDER BY terms (rows that tie on all terms come in any order)
OrderBy(rows) ==
    LET n == Cardinality(rows)
    IN  { s \in [1..n -> rows] :
            /\ \A i, j \in 1..n : i # j => s[i] # s[j]
            /\ \A i, j \in 1..n : i < j => ~OrderedBefore(s[j], s[i]) }

Min(a, b) == IF a < b THEN a ELSE b

\* (mutant) LIMIT ? alone: the page always starts at the first row
LimitOffset_FromStart(s, limit, offset) ==
    SubSeq(s, 1, Min(IF Len(limit.mag) > 9 THEN Len(s) ELSE IntVal(limit), Len(s)))

\* LIMIT ? OFFSET ? with non-negative arguments; a number of more than 9
\* digits exceeds the length of any result
LimitOffset(s, limit, offset) ==
    LET skip == IF Len(offset.mag) > 9 THEN Len(s) ELSE Min(IntVal(offset), Len(s))
        take == IF Len(limit.mag) > 9 THEN Len(s) ELSE IntVal(limit)
    IN  SubSeq(s, skip + 1, Min(skip + take, Len(s)))

\* messages(): the clamping of limit and offset
ClampLimit(limit) == IF IntLess(limit, PyInt(1)) THEN PyInt(1)
                     ELSE IF IntLess(PyInt(100), limit) THEN PyInt(100)
                     ELSE limit
ClampOffset(offset) == IF IntLess(offset, PyInt(0)) THEN PyInt(0) ELSE offset

\* messages() up to the first SELECT of get_messages, which counts the
\* matching rows; without the table the SELECT raises
Messages(p, params) ==
    /\ Accept(p)
    /\ req' = [req EXCEPT ![p] = MessagesReq(params)]
    /\ IF schema
       THEN /\ loc' = [loc EXCEPT ![p] =
                        [NoLoc EXCEPT !.limit = ClampLimit(params.limit),
                                      !.offset = ClampOffset(params.offset),
                                      !.total_count =
                                          SelectCount(store, Where(params.from_msisdn,
                                                                   params.since, params.q)),
                                      !.count_seen = Cardinality(store)]]
            /\ pc' = [pc EXCEPT ![p] = "page"]
            /\ UNCHANGED resp
       ELSE /\ loc' = [loc EXCEPT ![p] = [NoLoc EXCEPT !.outcome = "raised"]]
            /\ Respond(p, Unhandled500)
    /\ UNCHANGED <<secret, schema, store, wlock, now, webhook_requests_total>>

\* the second SELECT of get_messages and the MessagesResponse; binding a
\* limit or offset that SQLite cannot hold raises OverflowError, which nothing
\* catches
MessagesPage(p) ==
    /\ pc[p] = "page"
    /\ IF BindOverflows(loc[p].limit) \/ BindOverflows(loc[p].offset)
       THEN /\ Respond(p, Unhandled500)
            /\ loc' = [loc EXCEPT ![p].outcome = "overflow"]
       ELSE /\ \E s \in OrderBy({r \in store :
                                  WhereHolds(Where(req[p].params.from_msisdn,
                                                   req[p].params.since, req[p].params.q), r)}) :
                 Respond(p, [Response(200, "messages") EXCEPT
                                 !.data = LimitOffset(s, loc[p].limit, loc[p].offset),
                                 !.total = loc[p].total_count,
                                 !.limit = loc[p].limit, !.offset = loc[p].offset])
            /\ loc' = [loc EXCEPT ![p].page_seen = Cardinality(store)]
    /\ UNCHANGED <<secret, schema, store, wlock, now, req, nreq, webhook_requests_total>>

\* the second SELECT raises (I/O error): nothing catches it
MessagesFail(p) ==
    /\ pc[p] = "page"
    /\ loc' = [loc EXCEPT ![p].outcome = "raised"]
    /\ Respond(p, Unhandled500)
    /\ UNCHANGED <<secret, schema, store, wlock, now, req, nreq, webhook_requests_total>>

(* ------------------------------ GET /stats ----------------------------- *)

\* LIMIT 10 of the per-sender query
TopN == 10

\* SELECT COUNT(DISTINCT from_msisdn) FROM messages
Senders(st) == {r.from_msisdn : r \in st}

\* GROUP BY from_msisdn with COUNT(*)
Groups(st) ==
    {[from |-> f, count |-> Cardinality({r \in st : r.from_msisdn = f})] : f \in Senders(st)}

\* the first k rows of ORDER BY count DESC over the groups g: each row is one
\* of the remaining groups with the largest count, so groups with equal
\* counts come in any order
RECURSIVE OrderByCountDesc(_, _)
OrderByCountDesc(g, k) ==
    IF g = {} \/ k = 0 THEN {<<>>}
    ELSE UNION { {<<x>> \o s : s \in OrderByCountDesc(g \ {x}, k - 1)} :
                 x \in {y \in g : \A z \in g : y.count >= z.count} }

\* (mutant) the per-sender query without its LIMIT
TopSenders_NoLimit(st) == OrderByCountDesc(Groups(st), Cardinality(Groups(st)))

\* GROUP BY from_msisdn ORDER BY count DESC LIMIT 10
TopSenders(st) == OrderByCountDesc(Groups(st), TopN)

\* (mutant) MAX(ts) in the place of MIN(ts)
MinTs_Latest(st) == IF st = {} THEN None
                    ELSE Some(CHOOSE t \in {r.ts : r \in st} : \A r \in st : ~StrLess(t, r.ts))

\* SELECT MIN(ts), MAX(ts): NULL on an empty table
MinTs(st) == IF st = {} THEN None
             ELSE Some(CHOOSE t \in {r.ts : r \in st} : \A r \in st : ~StrLess(r.ts, t))
MaxTs(st) == IF st = {} THEN None
             ELSE Some(CHOOSE t \in {r.ts : r \in st} : \A r \in st : ~StrLess(t, r.ts))

\* `result[i] if result[i] else None`
OrNone(o) == IF Truthy(o) THEN o ELSE None

StatsReq == [kind |-> "stats", body |-> DummyBody, sig |-> NoHeader, params |-> NoParams]

\* stats() up to the first SELECT of get_stats; without the table it raises
Stats(p) ==
    /\ Accept(p)
    /\ req' = [req EXCEPT ![p] = StatsReq]
    /\ IF schema
       THEN /\ loc' = [loc EXCEPT ![p] =
                        [NoLoc EXCEPT !.stats.total_messages = Cardinality(store),
                                      !.count_seen = Cardinality(store)]]
            /\ pc' = [pc EXCEPT ![p] = "senders"]
            /\ UNCHANGED resp
       ELSE /\ loc' = [loc EXCEPT ![p] = [NoLoc EXCEPT !.outcome = "raised"]]
            /\ Respond(p, Unhandled500)
    /\ UNCHANGED <<secret, schema, store, wlock, now, webhook_requests_total>>

\* the second SELECT: the number of distinct senders
StatsSenders(p) ==
    /\ pc[p] = "senders"
    /\ loc' = [loc EXCEPT ![p].stats.senders_count = Cardinality(Senders(store))]
    /\ pc' = [pc EXCEPT ![p] = "top"]
    /\ UNCHANGED <<secret, schema, store, wlock, now, req, resp, nreq, webhook_requests_total>>

\* the third SELECT: the senders with the most messages
StatsTop(p) ==
    /\ pc[p] = "top"
    /\ \E top \in TopSenders(store) :
         loc' = [loc EXCEPT ![p].stats.messages_per_sender = top]
    /\ pc' = [pc EXCEPT ![p] = "minmax"]
    /\ UNCHANGED <<secret, schema, store, wlock, now, req, resp, nreq, webhook_requests_total>>

\* the fourth SELECT and the StatsResponse
StatsMinMax(p) ==
    /\ pc[p] = "minmax"
    /\ Respond(p, [Response(200, "stats") EXCEPT
                     !.stats = [loc[p].stats EXCEPT
                                   !.first_message_ts = OrNone(MinTs(store)),
                                   !.last_message_ts = OrNone(MaxTs(store))]])
    /\ loc' = [loc EXCEPT ![p].page_seen = Cardinality(store)]
    /\ UNCHANGED <<secret, schema, store, wlock, now, req, nreq, webhook_requests_total>>

\* one of the later SELECTs raises: nothing catches it
StatsFail(p) ==
    /\ pc[p] \in {"senders", "top", "minmax"}
    /\ loc' = [loc EXCEPT ![p].outcome = "raised"]
    /\ Respond(p, Unhandled500)
    /\ UNCHANGED <<secret, schema, store, wlock, now, req, nreq, webhook_requests_total>>

(* ------------------------------- health -------------------------------- *)

\* is_db_ready: the database file opens and the messages table is listed in
\* sqlite_master; any exception is answered False
is_db_ready(connects) == connects /\ schema

health_live(p) ==
    /\ Accept(p)
    /\ req' = [req EXCEPT ![p] = HealthReq("live")]
    /\ loc' = [loc EXCEPT ![p] = NoLoc]
    /\ Respond(p, Response(200, "alive"))
    /\ UNCHANGED <<secret, schema, store, wlock, now, webhook_requests_total>>

\* connects: whether sqlite3.connect and the SELECT of is_db_ready succeed
health_ready(p, connects) ==
    /\ Accept(p)
    /\ req' = [req EXCEPT ![p] = HealthReq("ready")]
    /\ loc' = [loc EXCEPT ![p] =
                 [NoLoc EXCEPT !.outcome = IF ConfigValidate(secret) /\ ~connects
                                           THEN "failed" ELSE "none"]]
    /\ Respond(p, IF ~ConfigValidate(secret) THEN Response(503, "WEBHOOK_SECRET not configured")
                  ELSE IF ~is_db_ready(connects) THEN Response(503, "database not ready")
                  ELSE Response(200, "ready"))
    /\ UNCHANGED <<secret, schema, store, wlock, now, webhook_requests_total>>

\* the response has been delivered; the slot takes the next request
Finish(p) ==
    /\ pc[p] = "done"
    /\ pc' = [pc EXCEPT ![p] = "idle"]
    /\ req' = [req EXCEPT ![p] = NoReq]
    /\ loc' = [loc EXCEPT ![p] = NoLoc]
    /\ resp' = [resp EXCEPT ![p] = NoResp]
    /\ UNCHANGED <<secret, schema, store, wlock, now, nreq, webhook_requests_total>>

Next ==
    \/ startup
    \/ temp_db
    \/ \E p \in Procs : \E body \in Bodies : \E sig \in SigHeaders(body) : Webhook(p, body, sig)
    \/ \E p \in Procs : InsertExecute(p)
    \/ \E p \in Procs : InsertCommit(p)
    \/ \E p \in Procs : InsertFail(p)
    \/ \E p \in Procs : InsertConnectFail(p)
    \/ \E p \in Procs : \E params \in QueryParams : Messages(p, params)
    \/ \E p \in Procs : MessagesPage(p)
    \/ \E p \in Procs : MessagesFail(p)
    \/ \E p \in Procs : Stats(p)
    \/ \E p \in Procs : StatsSenders(p)
    \/ \E p \in Procs : StatsTop(p)
    \/ \E p \in Procs : StatsMinMax(p)
    \/ \E p \in Procs : StatsFail(p)
    \/ \E p \in Procs : health_live(p)
    \/ \E p \in Procs : \E connects \in BOOLEAN : health_ready(p, connects)
    \/ \E p \in Procs : Finish(p)

Spec == Init /\ [][Next]_vars

\* ingestion and the health probes under any WEBHOOK_SECRET
NextAnySecret ==
    \/ startup
    \/ temp_db
    \/ \E p \in Procs : \E body \in Bodies : \E sig \in SigHeadersAnyKey(body) :
           Webhook(p, body, sig)
    \/ \E p \in Procs : InsertExecute(p)
    \/ \E p \in Procs : InsertCommit(p)
    \/ \E p \in Procs : InsertFail(p)
    \/ \E p \in Procs : InsertConnectFail(p)
    \/ \E p \in Procs : health_live(p)
    \/ \E p \in Procs : \E connects \in BOOLEAN : health_ready(p, connects)
    \/ \E p \in Procs : Finish(p)

SpecAnySecret == InitAnySecret /\ [][NextAnySecret]_vars

\* the tables an earlier run of the service can have left in the database
\* file: rows of valid deliveries, one per message_id
StoredTables ==
    {st \in SUBSET {[message_id |-> b.message_id, from_msisdn |-> b.from, to_msisdn |-> b.to,
                     ts |-> b.ts, text |-> b.text, created_at |-> 0] : b \in ValidBodies} :
        \A r1, r2 \in st : r1.message_id = r2.message_id => r1 = r2}

\* the service restarted over such a database file: the table is there, the
\* in-memory counters start again from zero
InitRestarted == InitWith({Some(SenderKey)}, {TRUE}, StoredTables)

\* listing queries next to deliveries of valid payloads
NextQuery ==
    \/ \E p \in Procs : \E body \in ValidBodies : \E sig \in SigHeaders(body) :
           Webhook(p, body, sig)
    \/ \E p \in Procs : InsertExecute(p)
    \/ \E p \in Procs : InsertCommit(p)
    \/ \E p \in Procs : InsertFail(p)
    \/ \E p \in Procs : InsertConnectFail(p)
    \/ \E p \in Procs : \E params \in QueryParams : Messages(p, params)
    \/ \E p \in Procs : MessagesPage(p)
    \/ \E p \in Procs : MessagesFail(p)
    \/ \E p \in Procs : Finish(p)

SpecQuery == InitRestarted /\ [][NextQuery]_vars

\* deliveries whose timestamps fall within one second, one of them with a
\* fraction of a second
TsBodies == {
    Body("compact", MID1, PLUS1, PLUS9, TS15, None),
    Body("compact", MID2, PLUS1, PLUS9, TS15frac, None) }

SinceParams == {
    Params(50, 0, None, None, None, None),
    Params(50, 0, None, None, Some(TS15), None),
    Params(50, 0, None, None, Some(TS15frac), None),
    Params(50, 0, None, None, Some(TS16), None) }

\* the service on an empty table
InitSince == InitWith({Some(SenderKey)}, {TRUE}, {{}})

\* such deliveries next to listing queries with a since filter
NextSince ==
    \/ \E p \in Procs : \E body \in TsBodies :
           Webhook(p, body, Header(hexdigest(SenderKey, body)))
    \/ \E p \in Procs : InsertExecute(p)
    \/ \E p \in Procs : InsertCommit(p)
    \/ \E p \in Procs : InsertFail(p)
    \/ \E p \in Procs : InsertConnectFail(p)
    \/ \E p \in Procs : \E params \in SinceParams : Messages(p, params)
    \/ \E p \in Procs : MessagesPage(p)
    \/ \E p \in Procs : MessagesFail(p)
    \/ \E p \in Procs : Finish(p)

SpecSince == InitSince /\ [][NextSince]_vars

\* a table with more senders than the per-sender query lists: sender i of 11
\* has SenderCounts[i] messages (the last two senders tie), the first of them
\* dated the 15th and the others the 16th
SenderCounts == <<10, 9, 8, 7, 6, 5, 4, 3, 2, 1, 1>>
SenderTable ==
    { [message_id |-> <<"m">> \o Digits(10 * i + k), from_msisdn |-> <<"+">> \o Digits(10 + i),
       to_msisdn |-> PLUS9, ts |-> IF k = 0 THEN TS15 ELSE TS16, text |-> None,
       created_at |-> 0] :
      <<i, k>> \in {ik \in (1..Len(SenderCounts)) \X (0..9) : ik[2] < SenderCounts[ik[1]]} }

\* the service restarted over a database file of an earlier run
InitStats == InitWith({Some(SenderKey)}, {TRUE}, StoredTables \cup {SenderTable})

\* /stats next to deliveries of valid payloads
NextStats ==
    \/ \E p \in Procs : \E body \in ValidBodies :
           Webhook(p, body, Header(hexdigest(SenderKey, body)))
    \/ \E p \in Procs : InsertExecute(p)
    \/ \E p \in Procs : InsertCommit(p)
    \/ \E p \in Procs : Stats(p)
    \/ \E p \in Procs : StatsSenders(p)
    \/ \E p \in Procs : StatsTop(p)
    \/ \E p \in Procs : StatsMinMax(p)
    \/ \E p \in Procs : StatsFail(p)
    \/ \E p \in Procs : Finish(p)

SpecStats == InitStats /\ [][NextStats]_vars

\* the service as one process.  The handlers are coroutines (async def) that
\* call insert_message, get_messages and get_stats directly, with no await
\* between the start of the storage call and the response: the event loop of
\* the process runs no other coroutine while a slot is in its storage call
InStorageCall(p) == pc[p] \in {"insert", "commit", "page", "senders", "top", "minmax"}

LoopFree(p) == \A o \in Procs \ {p} : ~InStorageCall(o)

\* a step of the request of slot p on the event loop
LoopStep(p) ==
    \/ LoopFree(p) /\ \E body \in ValidBodies : \E sig \in SigHeaders(body) : Webhook(p, body, sig)
    \/ LoopFree(p) /\ InsertExecute(p)
    \/ LoopFree(p) /\ InsertCommit(p)
    \/ LoopFree(p) /\ InsertFail(p)
    \/ LoopFree(p) /\ InsertConnectFail(p)
    \/ LoopFree(p) /\ Messages(p, NoParams)
    \/ LoopFree(p) /\ MessagesPage(p)
    \/ LoopFree(p) /\ MessagesFail(p)
    \/ LoopFree(p) /\ Stats(p)
    \/ LoopFree(p) /\ StatsSenders(p)
    \/ LoopFree(p) /\ StatsTop(p)
    \/ LoopFree(p) /\ StatsMinMax(p)
    \/ LoopFree(p) /\ StatsFail(p)

NextLoop ==
    \/ \E p \in Procs : LoopStep(p)
    \/ \E p \in Procs : Finish(p)

SpecLoop == InitRestarted /\ [][NextLoop]_vars


(* ------------------------------ properties ----------------------------- *)

IsDone(p, kind) == pc[p] = "done" /\ req[p].kind = kind

\* the X-Signature of slot p's request is the hex HMAC of its raw body under
\* the configured secret
ValidSignature(p) ==
    ~secret.isNone /\ req[p].sig = Header(hexdigest(secret.val, req[p].body))

RowsFor(mid) == {r \in store : r.message_id = mid}

MessageIds == {b.message_id : b \in ValidBodies}

\* C1 (idempotency): every delivery of a valid payload with a valid signature
\* that met no storage fault is answered 200 {"status":"ok"}, be it the first
\* or a repeated one, and the store then holds exactly one row with its
\* message_id.
C1_Idempotency ==
    \A p \in Procs :
        ( /\ IsDone(p, "webhook")
          /\ req[p].body \in ValidBodies
          /\ ValidSignature(p)
          /\ loc[p].outcome \notin {"failed", "raised"} )
        => /\ resp[p] = Ok200
           /\ Cardinality(RowsFor(req[p].body.message_id)) = 1

\* a third delivery of a stored message_id has just been answered 200
C1_Witness ==
    \E p \in Procs :
        /\ IsDone(p, "webhook") /\ ValidSignature(p)
        /\ loc[p].outcome = "duplicate"
        /\ resp[p] = Ok200
        /\ webhook_requests_total["duplicate"] = 2
        /\ Cardinality(RowsFor(req[p].body.message_id)) = 1

\* the slots that have completed an insert of message_id mid
Inserted(mid) ==
    {p \in Procs : /\ IsDone(p, "webhook")
                   /\ req[p].body.message_id = mid
                   /\ loc[p].outcome \in {"created", "duplicate"}}

\* C2 (uniqueness under race): the store never holds two rows with one
\* message_id; among the completed inserts of one message_id at most one is
\* Created, a completed insert implies the row is there, and when these are
\* all the inserts completed so far exactly one of them is Created and the
\* others are Duplicate.
C2_UniquenessUnderRace ==
    /\ \A r1, r2 \in store : r1.message_id = r2.message_id => r1 = r2
    /\ \A mid \in MessageIds :
         LET D == Inserted(mid)
             C == {p \in D : loc[p].outcome = "created"}
         IN  /\ Cardinality(C) <= 1
             /\ D # {} => RowsFor(mid) # {}
             /\ ( /\ D # {}
                  /\ Cardinality(D) = webhook_requests_total["created"]
                                      + webhook_requests_total["duplicate"] )
                => /\ Cardinality(C) = 1
                   /\ \A p \in D \ C : loc[p].outcome = "duplicate"

\* two requests with the same message_id were in flight together: one was
\* Created and the other Duplicate
C2_Witness ==
    \E p, q \in Procs :
        /\ p # q
        /\ IsDone(p, "webhook") /\ IsDone(q, "webhook")
        /\ req[p].body.message_id = req[q].body.message_id
        /\ req[p].body # req[q].body
        /\ loc[p].outcome = "created" /\ loc[q].outcome = "duplicate"
        /\ Cardinality(RowsFor(req[p].body.message_id)) = 1

\* C3 (authenticity): a request with a valid payload whose X-Signature is
\* missing, empty or not the hex HMAC of its raw body is answered 401 and no
\* insert is attempted.
C3_Authenticity ==
    \A p \in Procs :
        (IsDone(p, "webhook") /\ req[p].body \in ValidBodies /\ ~ValidSignature(p))
        => resp[p] = Unauthorized401 /\ loc[p].outcome = "none"

\* C4 (authentication precedes validation): a request with a missing or
\* incorrect signature and a payload that violates validation is answered
\* 401, never 422.
C4_AuthBeforeValidation ==
    \A p \in Procs :
        (IsDone(p, "webhook") /\ req[p].body \in InvalidBodies /\ ~ValidSignature(p))
        => resp[p].status = 401

\* ^\+[0-9]+$
PhoneShaped(v) ==
    Len(v) >= 2 /\ v[1] = "+" /\ \A i \in 2..Len(v) : v[i] \in AsciiDigits

\* the payload breaks one of the validation rules of the data model
ViolatesValidation(payload) ==
    \/ payload.message_id = <<>>
    \/ ~PhoneShaped(payload.from_msisdn)
    \/ ~PhoneShaped(payload.to_msisdn)
    \/ ~EndsWith(payload.ts, "Z")
    \/ ~fromisoformat(ReplaceZ(payload.ts))
    \/ (~payload.text.isNone /\ Len(payload.text.val) > MaxTextLen)

\* C5 (validation failure is rejected before storage): a correctly signed
\* request whose payload violates a validation rule is answered 422 and no
\* insert is attempted.
C5_ValidationRejected ==
    \A p \in Procs :
        ( /\ IsDone(p, "webhook")
          /\ ValidSignature(p)
          /\ ViolatesValidation(ParseBody(req[p].body)) )
        => resp[p] = Unprocessable422 /\ loc[p].outcome = "none"

\* C6 (stored rows are immutable): every step of every operation keeps each
\* stored row, with all its fields and its created_at.
C6_RowsImmutable == [][\A r \in store : r \in store']_vars

\* a delivery of a stored message_id with other field values, at a later
\* clock reading, has been answered and the stored row is as it was written
C6_Witness ==
    \E p \in Procs :
        /\ IsDone(p, "webhook") /\ ValidSignature(p)
        /\ loc[p].outcome = "duplicate"
        /\ \E r \in RowsFor(req[p].body.message_id) :
             /\ r.from_msisdn # req[p].body.from
             /\ r.ts # req[p].body.ts
             /\ r.created_at # loc[p].created_at

RowsComplete ==
    \A r \in store :
        /\ r.message_id # <<>> /\ r.from_msisdn # <<>> /\ r.to_msisdn # <<>> /\ r.ts # <<>>
        /\ r.created_at \in 0..MaxNow

\* C7 (storage failure): whenever an insert fails for a reason other than
\* the uniqueness constraint, insert_message reports Failed, the request ends
\* with the Internal error response and the store is as before; every stored
\* row is complete.
C7_StorageFailure ==
    /\ []RowsComplete
    /\ [][\A p \in Procs :
             (pc[p] \in {"insert", "commit"} /\ loc'[p].outcome \in {"failed", "raised"})
             => /\ loc'[p].outcome = "failed"
                /\ resp'[p] = Internal500
                /\ store' = store]_vars

\* C8 (fail closed on empty secret): while the secret is unset or empty,
\* /health/ready answers 503, no webhook request is accepted (answered 200)
\* and no row is stored.
C8_FailClosed ==
    (secret.isNone \/ secret.val = <<>>)
    => /\ store = {}
       /\ \A p \in Procs :
            /\ IsDone(p, "ready") => resp[p].status = 503
            /\ IsDone(p, "webhook") => resp[p].status # 200

IsPage(p) == IsDone(p, "messages") /\ resp[p].status = 200

\* C9 (ordering determinism): the rows of every /messages page are sorted by
\* ts ascending, ties broken by message_id ascending, and two queries with the
\* same parameters that read the same store return the same sequence.
C9_OrderingDeterminism ==
    /\ \A p \in Procs :
         IsPage(p) =>
            \A i, j \in 1..Len(resp[p].data) :
                i < j =>
                    LET a == resp[p].data[i]
                        b == resp[p].data[j]
                    IN  \/ StrLess(a.ts, b.ts)
                        \/ a.ts = b.ts /\ StrLess(a.message_id, b.message_id)
    /\ \A p, q \in Procs :
         ( /\ IsPage(p) /\ IsPage(q)
           /\ req[p].params = req[q].params
           /\ loc[p].page_seen = loc[q].page_seen )
         => resp[p].data = resp[q].data

\* two queries with the same parameters both returned two rows that tie on ts
C9_Witness ==
    \E p, q \in Procs :
        /\ p # q /\ IsPage(p) /\ IsPage(q)
        /\ req[p].params = req[q].params
        /\ loc[p].page_seen = loc[q].page_seen
        /\ Len(resp[p].data) = 2
        /\ resp[p].data[1].ts = resp[p].data[2].ts
        /\ resp[p].data[1].message_id # resp[p].data[2].message_id

\* t contains q, the ASCII letters compared without case
ContainsFold(t, q) ==
    \E i \in 0..(Len(t) - Len(q)) :
        \A k \in 1..Len(q) : Fold(t[i + k]) = Fold(q[k])

\* row r satisfies every filter supplied in the query string: from, since, q
MatchesFilters(r, params) ==
    /\ Truthy(params.from) => r.from_msisdn = params.from.val
    /\ Truthy(params.since) => ~StrLess(r.ts, params.since.val)
    /\ Truthy(params.q) => (~r.text.isNone /\ ContainsFold(r.text.val, params.q.val))

\* C10 (total is independent of pagination): on an unchanged store the total
\* of a /messages response is the number of stored rows that match the
\* filters, whatever limit and offset are (stated for requests that use the
\* documented parameters from, since and q).
C10_TotalCountsMatches ==
    \A p \in Procs :
        ( /\ IsPage(p)
          /\ req[p].params.from_msisdn.isNone
          /\ loc[p].count_seen = Cardinality(store) )
        => resp[p].total = Cardinality({r \in store : MatchesFilters(r, req[p].params)})

\* eff is asked clamped into [lo, hi] (hi = lo: no upper end)
ClampedTo(asked, eff, lo, hi) ==
    /\ IntLess(asked, PyInt(lo)) => eff = PyInt(lo)
    /\ (hi > lo /\ IntLess(PyInt(hi), asked)) => eff = PyInt(hi)
    /\ (~IntLess(asked, PyInt(lo)) /\ ~(hi > lo /\ IntLess(PyInt(hi), asked))) => eff = asked

\* slot p's /messages request ran into no fault of the storage layer
MessagesServed(p) == IsDone(p, "messages") /\ loc[p].outcome # "raised"

\* the page of slot p has the length that limit and offset give over the
\* total matching rows (stated when no row was stored between the two SELECTs
\* and the offset has at most 9 digits)
PageLengthFits(p) ==
    (loc[p].count_seen = loc[p].page_seen /\ Len(resp[p].offset.mag) <= 9)
    => LET skip == Min(IntVal(resp[p].offset), resp[p].total)
       IN  Len(resp[p].data) = Min(IntVal(resp[p].limit), resp[p].total - skip)

\* C11 (silent clamping): every /messages request, whatever integers it gives
\* for limit and offset, is answered 200, reports limit clamped into [1,100]
\* and offset clamped to >= 0, and its page is cut with these effective
\* values.
C11_SilentClamping ==
    \A p \in Procs :
        MessagesServed(p)
        => /\ resp[p].status = 200
           /\ ClampedTo(req[p].params.limit, resp[p].limit, 1, 100)
           /\ ClampedTo(req[p].params.offset, resp[p].offset, 0, 0)
           /\ PageLengthFits(p)

\* the same for the requests whose offset fits SQLite's INTEGER
C11_ClampingWithin64Bits ==
    \A p \in Procs :
        (MessagesServed(p) /\ ~BindOverflows(ClampOffset(req[p].params.offset)))
        => /\ resp[p].status = 200
           /\ ClampedTo(req[p].params.limit, resp[p].limit, 1, 100)
           /\ ClampedTo(req[p].params.offset, resp[p].offset, 0, 0)
           /\ PageLengthFits(p)

\* slot p's /messages answer came from a store that has not changed since
StoreAsRead(p) ==
    loc[p].count_seen = Cardinality(store) /\ loc[p].page_seen = Cardinality(store)

\* the rows of slot p's page
PageRows(p) == {resp[p].data[i] : i \in 1..Len(resp[p].data)}

\* the number of filters among from, since and q that the query supplies
Supplied(params) ==
    Cardinality({f \in {"from", "since", "q"} :
                    \/ f = "from" /\ Truthy(params.from)
                    \/ f = "since" /\ Truthy(params.since)
                    \/ f = "q" /\ Truthy(params.q)})

\* the rows that slot p's answer counts and lists are exactly those of
\* matching (the page holds all of them when it starts at 0 and is not full)
AnswersWith(p, matching) ==
    /\ resp[p].total = Cardinality(matching)
    /\ PageRows(p) \subseteq matching
    /\ (resp[p].offset = PyInt(0) /\ Len(resp[p].data) < IntVal(resp[p].limit))
       => PageRows(p) = matching

\* C12 (filter conjunction): a /messages query that supplies several of from,
\* since and q counts and lists a stored row if and only if the row satisfies
\* every supplied filter.
C12_FilterConjunction ==
    \A p \in Procs :
        ( /\ IsPage(p) /\ StoreAsRead(p)
          /\ req[p].params.from_msisdn.isNone
          /\ Supplied(req[p].params) >= 2 )
        => AnswersWith(p, {r \in store : MatchesFilters(r, req[p].params)})

\* the same conjunction over the filters the handler reads (from_msisdn in
\* place of from)
C12_ConjunctionOfReadFilters ==
    \A p \in Procs :
        ( /\ IsPage(p) /\ StoreAsRead(p)
          /\ req[p].params.from.isNone )
        => AnswersWith(p, {r \in store :
                             MatchesFilters(r, [req[p].params EXCEPT
                                                   !.from = req[p].params.from_msisdn])})

\* C13 (sender filter): GET /messages?from=X lists only rows whose from_msisdn
\* is X, and total is the number of stored rows sent by X.
C13_SenderFilter ==
    \A p \in Procs :
        ( /\ IsPage(p) /\ StoreAsRead(p)
          /\ Truthy(req[p].params.from)
          /\ req[p].params.from_msisdn.isNone )
        => /\ \A r \in PageRows(p) : r.from_msisdn = req[p].params.from.val
           /\ resp[p].total =
                  Cardinality({r \in store : /\ r.from_msisdn = req[p].params.from.val
                                             /\ MatchesFilters(r, req[p].params)})

\* t contains q as a literal substring, letter case included
Contains(t, q) ==
    \E i \in 0..(Len(t) - Len(q)) : \A k \in 1..Len(q) : t[i + k] = q[k]

\* C14 (text filter): with a non-empty q, /messages counts and lists exactly
\* the rows whose text is not null and contains q as a case-sensitive literal
\* substring.
C14_TextFilter ==
    \A p \in Procs :
        ( /\ IsPage(p) /\ StoreAsRead(p)
          /\ Truthy(req[p].params.q)
          /\ Supplied(req[p].params) = 1
          /\ req[p].params.from_msisdn.isNone )
        => AnswersWith(p, {r \in store : /\ ~r.text.isNone
                                         /\ Contains(r.text.val, req[p].params.q.val)})

\* what the filter does: the text is not null and matches the LIKE pattern
\* %q%, which for a q without % and _ is containment with the ASCII letters
\* compared without case
C14_TextFilterIsLike ==
    \A p \in Procs :
        ( /\ IsPage(p) /\ StoreAsRead(p)
          /\ Truthy(req[p].params.q)
          /\ Supplied(req[p].params) = 1
          /\ req[p].params.from_msisdn.isNone
          /\ \A k \in 1..Len(req[p].params.q.val) : req[p].params.q.val[k] \notin {"%", "_"} )
        => AnswersWith(p, {r \in store : /\ ~r.text.isNone
                                         /\ ContainsFold(r.text.val, req[p].params.q.val)})

\* C15 (since filter is chronological): timestamps that passed validation
\* sort as strings the way their instants do, so a /messages page is in
\* chronological order and a since filter counts and lists exactly the rows
\* whose instant is not earlier than since.
C15_SinceChronological ==
    /\ \A r1, r2 \in store :
          StrLess(r1.ts, r2.ts) <=> Earlier(datetime(r1.ts), datetime(r2.ts))
    /\ \A p \in Procs :
          IsPage(p) =>
             \A i, j \in 1..Len(resp[p].data) :
                 i < j => ~Earlier(datetime(resp[p].data[j].ts), datetime(resp[p].data[i].ts))
    /\ \A p \in Procs :
          ( /\ IsPage(p) /\ StoreAsRead(p)
            /\ Truthy(req[p].params.since) /\ validate_ts(req[p].params.since.val)
            /\ Supplied(req[p].params) = 1
            /\ req[p].params.from_msisdn.isNone )
          => AnswersWith(p, {r \in store :
                               ~Earlier(datetime(r.ts), datetime(req[p].params.since.val))})

\* the same for timestamps without a fraction of a second
C15_ChronologicalWholeSeconds ==
    /\ \A r1, r2 \in store :
          (Len(r1.ts) = 20 /\ Len(r2.ts) = 20)
          => (StrLess(r1.ts, r2.ts) <=> Earlier(datetime(r1.ts), datetime(r2.ts)))
    /\ \A p \in Procs :
          ( /\ IsPage(p) /\ StoreAsRead(p)
            /\ Truthy(req[p].params.since) /\ validate_ts(req[p].params.since.val)
            /\ Len(req[p].params.since.val) = 20
            /\ Supplied(req[p].params) = 1
            /\ req[p].params.from_msisdn.isNone )
          => AnswersWith(p, {r \in store :
                               /\ Len(r.ts) = 20 =>
                                      ~Earlier(datetime(r.ts), datetime(req[p].params.since.val))
                               /\ Len(r.ts) # 20 => ~StrLess(r.ts, req[p].params.since.val)})

\* the WHERE clause of slot p's query
WhereOf(p) == Where(req[p].params.from_msisdn, req[p].params.since, req[p].params.q)

\* C16 (snapshot consistency of a query): the total and the page of every
\* /messages answer come from one store state S: total is the number of
\* matching rows of S and the page is the [offset, offset+limit) slice of the
\* ordered matching rows of S.  Rows are never removed, so every state the
\* store has been in is a subset of the present one.
C16_SnapshotConsistency ==
    \A p \in Procs :
        IsPage(p) =>
            \E S \in SUBSET store :
                LET matching == {r \in S : WhereHolds(WhereOf(p), r)}
                IN  /\ resp[p].total = Cardinality(matching)
                    /\ \E s \in OrderBy(matching) :
                          resp[p].data = LimitOffset(s, resp[p].limit, resp[p].offset)

\* the same for the queries during which no row was stored
C16_ConsistentWhenUndisturbed ==
    \A p \in Procs :
        (IsPage(p) /\ loc[p].count_seen = loc[p].page_seen) =>
            \E S \in SUBSET store :
                LET matching == {r \in S : WhereHolds(WhereOf(p), r)}
                IN  /\ resp[p].total = Cardinality(matching)
                    /\ \E s \in OrderBy(matching) :
                          resp[p].data = LimitOffset(s, resp[p].limit, resp[p].offset)

IsStats(p) == IsDone(p, "stats") /\ resp[p].status = 200

\* C17 (aggregate correctness): over a store that does not change while it
\* is read, /stats reports the number of rows, the number of distinct
\* senders and the least and the greatest stored ts; over an empty store it
\* reports 0, 0, no senders and no timestamps.
C17_AggregateCorrectness ==
    \A p \in Procs :
        (IsStats(p) /\ StoreAsRead(p)) =>
            LET st == resp[p].stats
            IN  /\ st.total_messages = Cardinality(store)
                /\ st.senders_count = Cardinality({r.from_msisdn : r \in store})
                /\ store = {} =>
                      /\ st.messages_per_sender = <<>>
                      /\ st.first_message_ts = None /\ st.last_message_ts = None
                /\ store # {} =>
                      /\ ~st.first_message_ts.isNone /\ ~st.last_message_ts.isNone
                      /\ \E r \in store : r.ts = st.first_message_ts.val
                      /\ \E r \in store : r.ts = st.last_message_ts.val
                      /\ \A r \in store : /\ ~StrLess(r.ts, st.first_message_ts.val)
                                           /\ ~StrLess(st.last_message_ts.val, r.ts)

\* /stats answered over a store of several senders whose first and last
\* timestamps differ
C17_Witness ==
    \E p \in Procs :
        /\ IsStats(p) /\ StoreAsRead(p)
        /\ resp[p].stats.senders_count >= 2
        /\ resp[p].stats.total_messages > resp[p].stats.senders_count
        /\ resp[p].stats.first_message_ts # resp[p].stats.last_message_ts

\* the number of stored messages of sender f
CountOf(f) == Cardinality({r \in store : r.from_msisdn = f})

\* C18 (top-10 senders): over a store that does not change while it is
\* read, messages_per_sender has min(10, senders_count) entries, each a
\* distinct sender with its exact message count, in non-increasing order of
\* count, and no sender left out has more messages than a listed one.
C18_TopTenSenders ==
    \A p \in Procs :
        (IsStats(p) /\ StoreAsRead(p)) =>
            LET l == resp[p].stats.messages_per_sender
                n == resp[p].stats.senders_count
            IN  /\ Len(l) = IF n < 10 THEN n ELSE 10
                /\ \A i, j \in 1..Len(l) : i # j => l[i].from # l[j].from
                /\ \A i \in 1..Len(l) : l[i].count >= 1 /\ l[i].count = CountOf(l[i].from)
                /\ \A i, j \in 1..Len(l) : i < j => l[i].count >= l[j].count
                /\ \A r \in store :
                      (\A i \in 1..Len(l) : l[i].from # r.from_msisdn)
                      => \A i \in 1..Len(l) : CountOf(r.from_msisdn) <= l[i].count

\* /stats answered over a store of more than 10 senders
C18_Witness ==
    \E p \in Procs :
        /\ IsStats(p) /\ StoreAsRead(p)
        /\ resp[p].stats.senders_count > 10
        /\ Len(resp[p].stats.messages_per_sender) = 10

\* C19 (deterministic tie-breaking in aggregate): two /stats answers over the
\* same store contents carry the identical messages_per_sender list.
C19_DeterministicTies ==
    \A p, q \in Procs :
        ( /\ IsStats(p) /\ StoreAsRead(p)
          /\ IsStats(q) /\ StoreAsRead(q) )
        => resp[p].stats.messages_per_sender = resp[q].stats.messages_per_sender

\* the same for stores in which no two senders have the same count
C19_DeterministicWithoutTies ==
    \A p, q \in Procs :
        ( /\ IsStats(p) /\ StoreAsRead(p)
          /\ IsStats(q) /\ StoreAsRead(q)
          /\ \A r1, r2 \in store :
                r1.from_msisdn # r2.from_msisdn => CountOf(r1.from_msisdn) # CountOf(r2.from_msisdn) )
        => resp[p].stats.messages_per_sender = resp[q].stats.messages_per_sender

\* the step that answers /health/ready on slot p
AnswersReady(p) == pc[p] = "idle" /\ pc'[p] = "done" /\ req'[p].kind = "ready"

\* C20 (readiness): /health/ready answers 200 ready if and only if the
\* secret is configured non-empty and the store is reachable with the
\* messages table present, and 503 otherwise; /health/live answers alive in
\* every state.
C20_Readiness ==
    [][\A p \in Procs :
          /\ AnswersReady(p) =>
                IF Truthy(secret) /\ schema /\ loc'[p].outcome # "failed"
                THEN resp'[p] = Response(200, "ready")
                ELSE resp'[p].status = 503
          /\ (pc[p] = "idle" /\ pc'[p] = "done" /\ req'[p].kind = "live")
             => resp'[p] = Response(200, "alive")]_vars

\* C20 as the code has it: ready if and only if the secret is configured and
\* not made of whitespace only, and the store is reachable with the messages
\* table present.
C20_ReadinessNonBlank ==
    [][\A p \in Procs :
          /\ AnswersReady(p) =>
                IF /\ ~secret.isNone
                   /\ \E i \in 1..Len(secret.val) : secret.val[i] # " "
                   /\ schema /\ loc'[p].outcome # "failed"
                THEN resp'[p] = Response(200, "ready")
                ELSE resp'[p].status = 503
          /\ (pc[p] = "idle" /\ pc'[p] = "done" /\ req'[p].kind = "live")
             => resp'[p] = Response(200, "alive")]_vars

\* /health/ready has answered 503 to a service whose secret is one space and
\* whose messages table exists
C20_Witness ==
    \E p \in Procs :
        /\ IsDone(p, "ready") /\ resp[p].status = 503
        /\ secret = Some(<<" ">>) /\ schema /\ loc[p].outcome # "failed"

\* the payload keeps every validation rule other than those on from and to
OtherFieldsValid(payload) ==
    /\ payload.message_id # <<>>
    /\ validate_ts(payload.ts)
    /\ (payload.text.isNone \/ Len(payload.text.val) <= MaxTextLen)

\* C21 (phone-number validation): a webhook request is rejected as
\* Unprocessable whenever its from or to is not '+' followed by one or more
\* ASCII digits, and is not rejected for from and to when both have that
\* shape.
C21_PhoneValidation ==
    \A p \in Procs :
        IsDone(p, "webhook") =>
            LET payload == ParseBody(req[p].body)
            IN  /\ (~PhoneShaped(payload.from_msisdn) \/ ~PhoneShaped(payload.to_msisdn))
                   => resp[p] = Unprocessable422
                /\ ( /\ PhoneShaped(payload.from_msisdn) /\ PhoneShaped(payload.to_msisdn)
                     /\ OtherFieldsValid(payload) )
                   => resp[p] # Unprocessable422

\* the same for from and to values made of ASCII characters
C21_PhoneValidationAscii ==
    \A p \in Procs :
        IsDone(p, "webhook") =>
            LET payload == ParseBody(req[p].body)
                ascii(v) == \A i \in 1..Len(v) : v[i] # UDigit3
            IN  /\ ( /\ ascii(payload.from_msisdn) /\ ascii(payload.to_msisdn)
                     /\ (~PhoneShaped(payload.from_msisdn) \/ ~PhoneShaped(payload.to_msisdn)) )
                   => resp[p] = Unprocessable422
                /\ ( /\ PhoneShaped(payload.from_msisdn) /\ PhoneShaped(payload.to_msisdn)
                     /\ OtherFieldsValid(payload) )
                   => resp[p] # Unprocessable422

\* every success response on display belongs to a message_id that has a row
SuccessHasRow ==
    \A p \in Procs :
        (IsDone(p, "webhook") /\ resp[p] = Ok200) => RowsFor(req[p].body.message_id) # {}

\* C22 (success implies presence): when POST /webhook answers success for a
\* message_id, a row with that message_id is in the store, and it stays there
\* in every later state; insert reports Duplicate only when a row with that
\* message_id is already stored.
C22_SuccessImpliesPresence ==
    /\ []SuccessHasRow
    /\ [][ /\ \A r \in store : \E r2 \in store' : r2.message_id = r.message_id
           /\ \A p \in Procs :
                 (loc[p].outcome # "duplicate" /\ loc'[p].outcome = "duplicate")
                 => RowsFor(req[p].body.message_id) # {} ]_vars

\* a delivery was answered success as Created and its row, stamped with the
\* clock reading of that insert, is stored
C22_Witness ==
    \E p \in Procs :
        /\ IsDone(p, "webhook") /\ resp[p] = Ok200
        /\ loc[p].outcome = "created"
        /\ Row(ParseBody(req[p].body), loc[p].created_at) \in store

\* r1 comes before r2 in the order ts ascending, message_id ascending
ComesBefore(r1, r2) ==
    \/ StrLess(r1.ts, r2.ts)
    \/ r1.ts = r2.ts /\ StrLess(r1.message_id, r2.message_id)

\* the rows that the WHERE clause of slot p's query selects from the store
Matching(p) == {r \in store : WhereHolds(WhereOf(p), r)}

\* slot p's page is the part of the ordered matching rows at positions
\* offset .. offset+limit-1: its i-th row is a matching row with exactly
\* offset+i-1 matching rows before it, and its length is
\* min(limit, max(0, total - offset))
IsSlice(p) ==
    LET off == IntVal(resp[p].offset)
        lim == IntVal(resp[p].limit)
        rest == IF resp[p].total > off THEN resp[p].total - off ELSE 0
    IN  /\ resp[p].total = Cardinality(Matching(p))
        /\ Len(resp[p].data) = IF lim < rest THEN lim ELSE rest
        /\ \A i \in 1..Len(resp[p].data) :
              /\ resp[p].data[i] \in Matching(p)
              /\ Cardinality({r \in Matching(p) : ComesBefore(r, resp[p].data[i])})
                    = off + i - 1

MissingAnswer(body) ==
    CASE WebhookOutcome(secret, body, NoHeader) = "unprocessable" -> Unprocessable422
      [] WebhookOutcome(secret, body, NoHeader) = "unauthorized" -> Unauthorized401
      [] OTHER -> Unhandled500

\* C24 (missing and wrong signatures are indistinguishable): a request with
\* an incorrect X-Signature gets the response that the same body gets without
\* the header, which for a valid payload is 401 "invalid signature".
C24_MissingLikeWrong ==
    \A p \in Procs :
        (IsDone(p, "webhook") /\ ~ValidSignature(p)) =>
            /\ resp[p] = MissingAnswer(req[p].body)
            /\ req[p].body \in ValidBodies => resp[p] = Unauthorized401

\* the same for X-Signature values made of ASCII characters
C24_MissingLikeWrongAscii ==
    \A p \in Procs :
        ( /\ IsDone(p, "webhook") /\ ~ValidSignature(p)
          /\ req[p].sig # Header(NonAsciiSig) ) =>
            /\ resp[p] = MissingAnswer(req[p].body)
            /\ req[p].body \in ValidBodies => resp[p] = Unauthorized401

\* C25 (storage calls do not block the process): while the handler of one
\* request is inside a storage call, the slots of the other requests can take
\* a step, as long as the service still accepts requests.
C25_StorageDoesNotBlock ==
    \A p \in Procs :
        (InStorageCall(p) /\ nreq < MaxReq) =>
            \E q \in Procs \ {p} : ENABLED LoopStep(q)

\* slot p's POST /webhook, which reached the handler body, is answered in
\* this step
WebhookAnswered(p) ==
    /\ pc[p] # "done" /\ pc'[p] = "done"
    /\ req'[p].kind = "webhook"
    /\ resp'[p] # Unprocessable422

\* the result label that matches the outcome of the request answered
ResultOf(p) ==
    CASE resp'[p] = Unauthorized401 -> "invalid_signature"
      [] resp'[p] = Ok200 /\ store' # store -> "created"
      [] resp'[p] = Ok200 /\ store' = store -> "duplicate"
      [] OTHER -> "error"

\* the counters move only by one answered request being counted once
CountedOnce ==
    \/ UNCHANGED webhook_requests_total /\ \A p \in Procs : ~WebhookAnswered(p)
    \/ \E p \in Procs :
          /\ WebhookAnswered(p)
          /\ webhook_requests_total' =
                 increment_webhook_request(webhook_requests_total, ResultOf(p))

\* C26 (the counters account for every handled request): every POST /webhook
\* that reaches the handler adds one to exactly one of the four result
\* counters, the one matching its outcome, and nothing else moves them; the
\* created counter equals the number of stored rows.
C26_CountersAccount ==
    /\ [](webhook_requests_total["created"] = Cardinality(store))
    /\ [][CountedOnce]_vars

\* the same for the requests the handler answers itself, leaving out those
\* that end in an exception nothing catches
C26_CountersAccountAnswered ==
    /\ [](webhook_requests_total["created"] = Cardinality(store))
    /\ [][(\A p \in Procs : WebhookAnswered(p) => resp'[p] # Unhandled500) => CountedOnce]_vars

RECURSIVE SumCounts(_)
SumCounts(s) == IF s = <<>> THEN 0 ELSE Head(s).count + SumCounts(Tail(s))

\* the four consistency conditions on one /stats result
StatsCoherent(st) ==
    /\ st.senders_count <= st.total_messages
    /\ SumCounts(st.messages_per_sender) <= st.total_messages
    /\ Len(st.messages_per_sender) <= st.senders_count
    /\ (st.first_message_ts = None /\ st.last_message_ts = None) <=> st.total_messages = 0

\* C27 (internal consistency of one /stats result under concurrent
\* ingestion): every /stats result, also when inserts commit while it is
\* computed, has senders_count <= total_messages, the counts of
\* messages_per_sender summing to at most total_messages, at most
\* senders_count entries in messages_per_sender, and both timestamps null
\* exactly when total_messages is 0.
C27_StatsCoherentUnderIngestion ==
    \A p \in Procs : IsStats(p) => StatsCoherent(resp[p].stats)

\* the same for the results computed with no commit between the four SELECTs
C27_StatsCoherentWhenUndisturbed ==
    \A p \in Procs : (IsStats(p) /\ StoreAsRead(p)) => StatsCoherent(resp[p].stats)

====
